---------------------------- MODULE Spec2Model ----------------------------
(***************************************************************************)
(* YouTube Channel & Playlist Manager (src/oop.py): the data model (Video, *)
(* Playlist, Channel), its two file formats, and the App handlers that own *)
(* the next-playlist-id counter and the playlist listbox.                  *)
(*                                                                         *)
(* Four specifications share the variables:                                *)
(*   Spec          the App: create / delete / load / rename / search       *)
(*   SpecIntIds    the App, given only documents with integer plIDs        *)
(*   SpecChannel   one Channel object and one channel document on disk     *)
(*   SpecPlaylist  one Playlist object and one playlist text file on disk  *)
(***************************************************************************)
EXTENDS Integers, Sequences, FiniteSets, TLC

VARIABLES
    name,              \* Channel.name            (text: a sequence of characters)
    playlists,         \* Channel.playlists       (sequence of Playlist objects)
    next_playlist_id,  \* App.next_playlist_id
    listbox_size,      \* number of rows App.playlist_listbox shows
    chanFile,          \* the channel document on disk (SpecChannel)
    savedChannel,      \* history: the Channel state the last to_json wrote
    pl,                \* one Playlist object (SpecPlaylist)
    plFile,            \* the playlist text file on disk (SpecPlaylist)
    savedVideos,       \* history: the videos the last save_playlist_to_file wrote
    last               \* the last operation, its inputs and its outcome

vars == <<name, playlists, next_playlist_id, listbox_size, chanFile,
          savedChannel, pl, plFile, savedVideos, last>>

-----------------------------------------------------------------------------
(* Bounds of the exploration *)

MaxPl == 2
MaxId == 4
MaxVid == 2

-----------------------------------------------------------------------------
(* Python values that keep their dynamic type                               *)
(* plID is stored as read from the document; duration and views go through *)
(* int(), which accepts an int or a string holding a numeral.              *)

PyInt(n) == [type |-> "int", val |-> n]

PyStr(t) == [type |-> "str", text |-> t]

PyNone == [type |-> "NoneType"]

DigitChar == <<"0", "1", "2", "3", "4", "5", "6", "7", "8", "9">>

IsDigit(c) == \E i \in 1..10 : DigitChar[i] = c

DigitVal(c) == (CHOOSE i \in 1..10 : DigitChar[i] = c) - 1

RECURSIVE nat_of_digits(_)
nat_of_digits(t) ==
    IF t = <<>> THEN 0
    ELSE 10 * nat_of_digits(SubSeq(t, 1, Len(t) - 1)) + DigitVal(t[Len(t)])

\* int(x): [ok, val] or [ok, err]
int(x) ==
    IF x.type = "int" THEN [ok |-> TRUE, val |-> x.val]
    ELSE IF x.type = "str"
         THEN LET t    == x.text
                  neg  == t # <<>> /\ t[1] = "-"
                  digs == IF neg THEN Tail(t) ELSE t
              IN IF digs # <<>> /\ \A i \in 1..Len(digs) : IsDigit(digs[i])
                 THEN [ok |-> TRUE,
                       val |-> IF neg THEN 0 - nat_of_digits(digs)
                               ELSE nat_of_digits(digs)]
                 ELSE [ok |-> FALSE, err |-> "ValueError"]
         ELSE [ok |-> FALSE, err |-> "TypeError"]

RECURSIVE nat_str(_)
nat_str(n) ==
    IF n < 10 THEN <<DigitChar[n + 1]>>
    ELSE nat_str(n \div 10) \o <<DigitChar[(n % 10) + 1]>>

\* str(n) of an int, as the f-string of create_playlist formats it
str(n) == IF n < 0 THEN <<"-">> \o nat_str(0 - n) ELSE nat_str(n)

-----------------------------------------------------------------------------
(* Text: str.lower and str.strip on sequences of characters *)

UpperToLower ==
    [c \in {"A", "B", "C", "M", "P", "R", "U", "O"} |->
        CASE c = "A" -> "a" [] c = "B" -> "b" [] c = "C" -> "c"
          [] c = "M" -> "m" [] c = "P" -> "p" [] c = "R" -> "r"
          [] c = "U" -> "u" [] c = "O" -> "o"]

lower(s) ==
    [i \in 1..Len(s) |->
        IF s[i] \in DOMAIN UpperToLower THEN UpperToLower[s[i]] ELSE s[i]]

RECURSIVE lstrip(_)
lstrip(s) == IF s # <<>> /\ s[1] = " " THEN lstrip(Tail(s)) ELSE s

RECURSIVE rstrip(_)
rstrip(s) ==
    IF s # <<>> /\ s[Len(s)] = " " THEN rstrip(SubSeq(s, 1, Len(s) - 1)) ELSE s

strip(s) == rstrip(lstrip(s))

-----------------------------------------------------------------------------
(* Video and Playlist *)

Video(title, duration, views) ==
    [title |-> title, duration |-> duration, views |-> views]

\* dataclasses.asdict(v), as json.dumps writes it: the two ints become JSON numbers
asdict(v) ==
    [title |-> v.title, duration |-> PyInt(v.duration), views |-> PyInt(v.views)]

\* Playlist.__init__
Playlist(playListName, plID) ==
    [playListName |-> playListName, plID |-> plID, videos |-> <<>>]

\* Playlist.add_video
add_video(self, video) == [self EXCEPT !.videos = Append(self.videos, video)]

\* del l[i] of a Python list: a negative i counts from the end, anything
\* outside [-len, len) raises IndexError
list_del(l, i) ==
    LET j == IF i < 0 THEN i + Len(l) ELSE i
    IN IF 0 <= j /\ j < Len(l)
       THEN [ok |-> TRUE, val |-> SubSeq(l, 1, j) \o SubSeq(l, j + 2, Len(l))]
       ELSE [ok |-> FALSE, err |-> "IndexError"]

\* remove_video with its bounds test dropped: a bare del self.videos[index]
remove_video_unchecked(self, index) ==
    LET r == list_del(self.videos, index)
    IN IF r.ok THEN [err |-> "none", self |-> [self EXCEPT !.videos = r.val]]
       ELSE [err |-> r.err, self |-> self]

\* Playlist.remove_video: the error raised (never one) and the Playlist after
remove_video(self, index) ==
    IF 0 <= index /\ index < Len(self.videos)
    THEN [err |-> "none",
          self |-> [self EXCEPT !.videos = list_del(self.videos, index).val]]
    ELSE [err |-> "none", self |-> self]

\* Video(data['title'], int(data['duration']), int(data['views'])) on one decoded
\* record: the three keys are read in this order, each int() as it is reached
video_from_record(data) ==
    IF "title" \notin DOMAIN data THEN [ok |-> FALSE, err |-> "KeyError"]
    ELSE IF "duration" \notin DOMAIN data THEN [ok |-> FALSE, err |-> "KeyError"]
    ELSE IF ~int(data.duration).ok
         THEN [ok |-> FALSE, err |-> int(data.duration).err]
    ELSE IF "views" \notin DOMAIN data THEN [ok |-> FALSE, err |-> "KeyError"]
    ELSE IF ~int(data.views).ok THEN [ok |-> FALSE, err |-> int(data.views).err]
    ELSE [ok |-> TRUE,
          val |-> Video(data.title, int(data.duration).val, int(data.views).val)]

\* to_dict writing the videos last to first
to_dict_reversed(self) ==
    [playListName |-> self.playListName, plID |-> self.plID,
     videos |-> [i \in 1..Len(self.videos) |->
                    asdict(self.videos[Len(self.videos) + 1 - i])]]

\* Playlist.to_dict
to_dict(self) ==
    [playListName |-> self.playListName, plID |-> self.plID,
     videos |-> [i \in 1..Len(self.videos) |-> asdict(self.videos[i])]]

\* the loop of Playlist.from_dict over d.get('videos', []): the playlist after
\* the loop, or the first error raised
RECURSIVE add_videos_from(_, _)
add_videos_from(p, vds) ==
    IF vds = <<>> THEN [ok |-> TRUE, val |-> p]
    ELSE LET v == video_from_record(Head(vds))
         IN IF v.ok THEN add_videos_from(add_video(p, v.val), Tail(vds))
            ELSE [ok |-> FALSE, err |-> v.err]

\* Playlist.from_dict
from_dict(d) ==
    IF "playListName" \notin DOMAIN d \/ "plID" \notin DOMAIN d
    THEN [ok |-> FALSE, err |-> "KeyError"]
    ELSE add_videos_from(Playlist(d.playListName, d.plID),
                         IF "videos" \in DOMAIN d THEN d.videos ELSE <<>>)

\* A playlist text file on disk: [kind |-> "missing"], or
\* [kind |-> "text", lines |-> <<...>>], each line one of
\*   [kind |-> "blank"]               only whitespace
\*   [kind |-> "json", data |-> r]    a JSON object, r holding the keys it has
\*   [kind |-> "garbage"]             anything json.loads rejects
TextFile(lines) == [kind |-> "text", lines |-> lines]

\* Playlist.save_playlist_to_file: the file it writes
save_playlist_to_file(self) ==
    TextFile([i \in 1..Len(self.videos) |->
                 [kind |-> "json", data |-> asdict(self.videos[i])]])

\* the loop of Playlist.load_playlist_from_file over the lines left: the error
\* raised ("none" at the end of the file) and the Playlist as it is then
RECURSIVE load_lines(_, _)
load_lines(self, lines) ==
    IF lines = <<>> THEN [err |-> "none", self |-> self]
    ELSE LET line == Head(lines)
         IN IF line.kind = "blank" THEN load_lines(self, Tail(lines))
            ELSE IF line.kind = "garbage"
                 THEN [err |-> "JSONDecodeError", self |-> self]
            ELSE LET v == video_from_record(line.data)
                 IN IF v.ok THEN load_lines(add_video(self, v.val), Tail(lines))
                    ELSE [err |-> v.err, self |-> self]

\* load_playlist_from_file without the self.videos = [] that opens it
load_playlist_from_file_merge(self, file) ==
    IF file.kind = "missing" THEN [err |-> "FileNotFoundError", self |-> self]
    ELSE load_lines(self, file.lines)

\* Playlist.load_playlist_from_file: self.videos is emptied before the file is
\* opened
load_playlist_from_file(self, file) ==
    LET emptied == [self EXCEPT !.videos = <<>>]
    IN IF file.kind = "missing"
       THEN [err |-> "FileNotFoundError", self |-> emptied]
       ELSE load_lines(emptied, file.lines)

-----------------------------------------------------------------------------
(* Channel *)

\* the default of Channel.__init__, and the name the App gives its Channel
DefaultChannelName == <<"M", "y", " ", "C", "h", "a", "n", "n", "e", "l">>

AppChannelName ==
    <<"E", "l", "s", "a", "y", "e", "d", " ", "C", "h", "a", "n", "n", "e", "l">>

\* Channel.__init__
Channel(n) == [name |-> n, playlists |-> <<>>]

\* Channel.add_playlist
add_playlist(self, playlist) ==
    [self EXCEPT !.playlists = Append(self.playlists, playlist)]

\* the scan of Channel.search_playlist from position i on: the (1-based)
\* position of the first playlist whose lowered name is lname, 0 for None
RECURSIVE search_from(_, _, _)
search_from(pls, lname, i) ==
    IF i > Len(pls) THEN 0
    ELSE IF lower(pls[i].playListName) = lname THEN i
    ELSE search_from(pls, lname, i + 1)

\* search_playlist comparing the lowered names with the query as typed
search_playlist_case_sensitive(self, n) == search_from(self.playlists, n, 1)

\* Channel.search_playlist
search_playlist(self, n) == search_from(self.playlists, lower(n), 1)

\* A file on disk, as open() and json.load see it:
\*   [kind |-> "missing"]            no such file (FileNotFoundError)
\*   [kind |-> "malformed"]          not JSON (JSONDecodeError)
\*   [kind |-> "array"]              JSON whose top-level value is no object
\*   [kind |-> "object", obj |-> r]  a JSON object, r holding the keys it has
JsonFile(obj) == [kind |-> "object", obj |-> obj]

\* Channel.to_json: the document json.dump writes
to_json(self) ==
    JsonFile([name |-> self.name,
              playlists |-> [i \in 1..Len(self.playlists) |->
                                to_dict(self.playlists[i])]])

\* [Playlist.from_dict(d) for d in ds]: the whole list, or the first error
RECURSIVE from_dict_all(_)
from_dict_all(ds) ==
    IF ds = <<>> THEN [ok |-> TRUE, val |-> <<>>]
    ELSE LET p == from_dict(Head(ds))
             rest == from_dict_all(Tail(ds))
         IN IF ~p.ok THEN [ok |-> FALSE, err |-> p.err]
            ELSE IF ~rest.ok THEN [ok |-> FALSE, err |-> rest.err]
            ELSE [ok |-> TRUE, val |-> <<p.val>> \o rest.val]

\* obj.get(key, default) on a decoded JSON object
get(obj, key, default) == IF key \in DOMAIN obj THEN obj[key] ELSE default

\* the two assignments of Channel.load_json, given what obj.get returned:
\* self.name is assigned before the playlists are built, self.playlists only
\* once every one of them is
assign_loaded(self, n, ds) ==
    LET renamed == [self EXCEPT !.name = n]
        pls == from_dict_all(ds)
    IN IF ~pls.ok THEN [err |-> pls.err, self |-> renamed]
       ELSE [err |-> "none", self |-> [renamed EXCEPT !.playlists = pls.val]]

\* load_json with obj['name'] and obj['playlists'] in place of obj.get
load_json_strict(self, file) ==
    IF file.kind = "missing" THEN [err |-> "FileNotFoundError", self |-> self]
    ELSE IF file.kind = "malformed" THEN [err |-> "JSONDecodeError", self |-> self]
    ELSE IF file.kind = "array" THEN [err |-> "AttributeError", self |-> self]
    ELSE IF "name" \notin DOMAIN file.obj \/ "playlists" \notin DOMAIN file.obj
    THEN [err |-> "KeyError", self |-> self]
    ELSE assign_loaded(self, file.obj.name, file.obj.playlists)

\* Channel.load_json: the error raised ("none" when it returns) and the Channel
\* as the call leaves it
load_json(self, file) ==
    IF file.kind = "missing" THEN [err |-> "FileNotFoundError", self |-> self]
    ELSE IF file.kind = "malformed" THEN [err |-> "JSONDecodeError", self |-> self]
    ELSE IF file.kind = "array" THEN [err |-> "AttributeError", self |-> self]
    ELSE assign_loaded(self, get(file.obj, "name", self.name),
                       get(file.obj, "playlists", <<>>))

-----------------------------------------------------------------------------
(* The inputs of the exploration: names typed into the entry fields, videos, *)
(* and the files a file dialog can pick                                      *)

mu == <<"m", "u">>

Mu == <<"M", "u">>

ro == <<"r", "o">>

v1 == Video("Intro", 125, 10)

v2 == Video("Outro", 45, 0)

Videos == {v1, v2}

\* playlist entries of a channel document: well-formed ones (a repeated plID,
\* a non-sequential plID, no videos key, a duration written as a string, a null
\* plID) ...
e1 == to_dict([playListName |-> mu, plID |-> PyInt(1), videos |-> <<v1, v2>>])

e2 == [playListName |-> Mu, plID |-> PyInt(1)]

e3 == [playListName |-> ro, plID |-> PyInt(3),
       videos |-> <<[title |-> "Outro", duration |-> PyStr(<<"4", "5">>),
                     views |-> PyInt(0)]>>]

eNone == [playListName |-> mu, plID |-> PyNone, videos |-> <<>>]

\* ... and entries that lack a required field or hold a duration that is no number
BadEntries ==
    { [plID |-> PyInt(2), videos |-> <<>>],
      [playListName |-> ro],
      [playListName |-> ro, plID |-> PyInt(2),
       videos |-> <<asdict(v1), [duration |-> PyInt(5), views |-> PyInt(1)]>>],
      [playListName |-> ro, plID |-> PyInt(2),
       videos |-> <<[title |-> "Intro", views |-> PyInt(1)]>>],
      [playListName |-> ro, plID |-> PyInt(2),
       videos |-> <<[title |-> "Intro", duration |-> PyInt(5)]>>],
      [playListName |-> ro, plID |-> PyInt(2),
       videos |-> <<[title |-> "Intro", duration |-> PyStr(<<"x">>),
                     views |-> PyInt(1)]>>] }

GoodPlaylistLists ==
    { <<>>, <<e1>>, <<e1, e2>>, <<e3, e1>>, <<eNone>>, <<e1, eNone>> }

BadPlaylistLists ==
    { <<[playListName |-> ro]>> } \cup { <<e1, b>> : b \in BadEntries }

PlaylistLists == GoodPlaylistLists \cup BadPlaylistLists

ChannelFiles ==
    { [kind |-> "missing"], [kind |-> "malformed"], [kind |-> "array"],
      JsonFile([created |-> "today"]), JsonFile([name |-> <<"B">>]) }
    \cup { JsonFile([name |-> <<"B">>, playlists |-> l]) : l \in PlaylistLists }
    \cup { JsonFile([playlists |-> l]) : l \in PlaylistLists }

\* what the new-playlist entry and the search entry may hold
NameInputs == { <<>>, <<" ", "m", "u">>, <<"M", "u", " ">> }

QueryInputs == { <<" ">>, <<" ", "m", "u">>, ro, <<"M", "U">> }

ChannelNameInputs == { <<" ">>, <<" ", "C">> }

-----------------------------------------------------------------------------
(* The App *)

Last(op, err, idx, found, q) ==
    [op |-> op, err |-> err, idx |-> idx, found |-> found, q |-> q]

self_channel == [name |-> name, playlists |-> playlists]

IsPyInt(x) == x.type = "int"

MaxOf(S) == CHOOSE m \in S : \A x \in S : x <= m

IdsOf(pls) == { pls[i].plID : i \in 1..Len(pls) }

\* the counter set to the number of playlists + 1 in place of max(ids) + 1
next_id_after_load_count(pls) == [ok |-> TRUE, val |-> Len(pls) + 1]

\* the counter set to max(ids), the + 1 forgotten
next_id_after_load_max(pls) ==
    IF \A x \in IdsOf(pls) : IsPyInt(x)
    THEN [ok |-> TRUE,
          val |-> IF pls = <<>> THEN 0 ELSE MaxOf({ x.val : x \in IdsOf(pls) })]
    ELSE [ok |-> FALSE, err |-> "TypeError"]

\* max([p.plID for p in self.channel.playlists], default=0) + 1: comparing or
\* adding to a plID that is no number raises TypeError
next_id_after_load(pls) ==
    IF \A x \in IdsOf(pls) : IsPyInt(x)
    THEN [ok |-> TRUE,
          val |-> IF pls = <<>> THEN 1 ELSE MaxOf({ x.val : x \in IdsOf(pls) }) + 1]
    ELSE [ok |-> FALSE, err |-> "TypeError"]

\* Everything but the App's own state
other_unchanged == UNCHANGED <<chanFile, savedChannel, pl, plFile, savedVideos>>

\* App._start_app: Channel('Elsayed Channel'), the counter at 1, an empty listbox
Init ==
    /\ name = Channel(AppChannelName).name
    /\ playlists = Channel(AppChannelName).playlists
    /\ next_playlist_id = 1
    /\ listbox_size = 0
    /\ chanFile = [kind |-> "missing"]
    /\ savedChannel = <<>>
    /\ pl = Playlist(mu, PyInt(1))
    /\ plFile = [kind |-> "missing"]
    /\ savedVideos = <<>>
    /\ last = Last("init", "none", 0, 0, <<>>)

\* App.rename_channel
rename_channel ==
    \E input \in ChannelNameInputs :
        LET n == strip(input)
        IN /\ IF n # <<>>
              THEN name' = n /\ last' = Last("rename_channel", "none", 0, 0, n)
              ELSE name' = name /\ last' = Last("rename_channel", "warning", 0, 0, n)
           /\ UNCHANGED <<playlists, next_playlist_id, listbox_size>>
           /\ other_unchanged

\* App.load_channel, the dialog cancelled
load_channel_cancel ==
    /\ last' = Last("load_channel", "cancel", 0, 0, <<>>)
    /\ UNCHANGED <<name, playlists, next_playlist_id, listbox_size>>
    /\ other_unchanged

\* App.load_channel once the dialog returned file
load_channel_from(file) ==
    LET r == load_json(self_channel, file)
        n == next_id_after_load(r.self.playlists)
    IN /\ name' = r.self.name
       /\ playlists' = r.self.playlists
       /\ IF r.err = "none" /\ n.ok
          THEN /\ next_playlist_id' = n.val
               /\ listbox_size' = Len(r.self.playlists)
               /\ last' = Last("load_channel", "none", 0, 0, <<>>)
          ELSE /\ UNCHANGED <<next_playlist_id, listbox_size>>
               /\ last' = Last("load_channel",
                               IF r.err # "none" THEN r.err ELSE n.err,
                               0, 0, <<>>)
       /\ other_unchanged

\* App.load_channel on the file the dialog picked
load_channel == \E file \in ChannelFiles : load_channel_from(file)

\* App.create_playlist
create_playlist ==
    \E input \in NameInputs :
        LET n == IF strip(input) # <<>> THEN strip(input)
                 ELSE <<"P", "l", "a", "y", "l", "i", "s", "t", " ">>
                      \o str(next_playlist_id)
        IN /\ Len(playlists) < MaxPl
           /\ next_playlist_id <= MaxId
           /\ playlists' = add_playlist(self_channel,
                                        Playlist(n, PyInt(next_playlist_id))).playlists
           /\ next_playlist_id' = next_playlist_id + 1
           /\ listbox_size' = Len(playlists')
           /\ last' = Last("create_playlist", "none", 0, 0, n)
           /\ UNCHANGED name
           /\ other_unchanged

\* App.delete_playlist with no row selected
delete_playlist_none ==
    /\ last' = Last("delete_playlist", "noselection", 0, 0, <<>>)
    /\ UNCHANGED <<name, playlists, next_playlist_id, listbox_size>>
    /\ other_unchanged

\* App.delete_playlist on the row selected in the listbox; an IndexError leaves
\* the handler before the listbox is refreshed
delete_playlist ==
    \E idx \in 0..(listbox_size - 1) :
        LET r == list_del(playlists, idx)
        IN /\ IF r.ok
              THEN /\ playlists' = r.val
                   /\ listbox_size' = Len(r.val)
                   /\ last' = Last("delete_playlist", "none", idx, 0, <<>>)
              ELSE /\ UNCHANGED <<playlists, listbox_size>>
                   /\ last' = Last("delete_playlist", r.err, idx, 0, <<>>)
           /\ UNCHANGED <<name, next_playlist_id>>
           /\ other_unchanged

\* App.search_playlist: found is the listbox row selected, -1 for "not found"
app_search_playlist ==
    \E input \in QueryInputs :
        LET q == strip(input)
            i == search_playlist(self_channel, q)
        IN /\ IF q = <<>>
              THEN last' = Last("search_playlist", "empty", 0, -1, q)
              ELSE last' = Last("search_playlist", "none", 0, i - 1, q)
           /\ UNCHANGED <<name, playlists, next_playlist_id, listbox_size>>
           /\ other_unchanged

Next ==
    \/ rename_channel
    \/ load_channel_cancel
    \/ load_channel
    \/ create_playlist
    \/ delete_playlist_none
    \/ delete_playlist
    \/ app_search_playlist

Spec == Init /\ [][Next]_vars

-----------------------------------------------------------------------------
(* Properties of the App (Spec) *)

MinOf(S) == CHOOSE m \in S : \A x \in S : m <= x

\* two characters that are the same letter, whatever their case
CasePairs ==
    { <<"a", "A">>, <<"b", "B">>, <<"c", "C">>, <<"m", "M">>, <<"o", "O">>,
      <<"p", "P">>, <<"r", "R">>, <<"u", "U">> }

SameLetter(c, d) == c = d \/ <<c, d>> \in CasePairs \/ <<d, c>> \in CasePairs

EqIgnoreCase(a, b) ==
    Len(a) = Len(b) /\ \A i \in 1..Len(a) : SameLetter(a[i], b[i])

\* C1: in every state reached by create-playlist, delete-playlist and
\* load-channel, no two playlists of the Channel have the same id.
C1_UniqueIds ==
    \A i, j \in 1..Len(playlists) :
        i # j => playlists[i].plID # playlists[j].plID

\* C6: a search returns the playlist at the smallest position whose name equals
\* the query ignoring letter case, returns "not found" exactly when there is
\* none, and changes neither the Channel nor any Playlist.
C6_SearchFirstMatch ==
    [][last'.op = "search_playlist" =>
          /\ name' = name
          /\ playlists' = playlists
          /\ last'.err = "none" =>
                LET M == { i \in 1..Len(playlists) :
                             EqIgnoreCase(playlists[i].playListName, last'.q) }
                IN IF M = {} THEN last'.found = -1
                   ELSE last'.found = MinOf(M) - 1]_vars

\* C6 witness: "MU" was searched in a Channel whose two playlists "mu" and "Mu"
\* both match, and the first one was returned
C6_Witness ==
    /\ last.op = "search_playlist"
    /\ last.q = <<"M", "U">>
    /\ last.found = 0
    /\ Len(playlists) = 2
    /\ playlists[1].playListName = mu
    /\ playlists[2].playListName = Mu

\* C8: delete-playlist with an index outside [0, number of playlists) leaves the
\* playlists unchanged and signals no error; with an index inside the range it
\* removes exactly the playlist at that position.
C8_DeleteOutOfRangeNoOp ==
    [][(last'.op = "delete_playlist" /\ last'.err # "noselection") =>
          LET i == last'.idx
              n == Len(playlists)
          IN IF 0 <= i /\ i < n
             THEN /\ last'.err = "none"
                  /\ playlists' = [k \in 1..(n - 1) |->
                                      IF k <= i THEN playlists[k]
                                      ELSE playlists[k + 1]]
             ELSE /\ last'.err = "none"
                  /\ playlists' = playlists]_vars

\* C9: after a successful load-channel the counter is max(ids of the loaded
\* playlists) + 1, or 1 when there are none, whatever it was before; after a
\* failed (or cancelled) load-channel it keeps its value.
C9_NextIdAfterLoad ==
    [][last'.op = "load_channel" =>
          IF last'.err = "none"
          THEN /\ \A x \in IdsOf(playlists') : IsPyInt(x)
               /\ IF playlists' = <<>> THEN next_playlist_id' = 1
                  ELSE /\ \E x \in IdsOf(playlists') :
                             next_playlist_id' = x.val + 1
                       /\ \A x \in IdsOf(playlists') :
                             x.val < next_playlist_id'
          ELSE next_playlist_id' = next_playlist_id]_vars

\* C9 witness: a document with the ids 3 and 1 was loaded and the counter is 4
C9_Witness ==
    /\ last.op = "load_channel"
    /\ last.err = "none"
    /\ Len(playlists) = 2
    /\ playlists[1].plID = PyInt(3)
    /\ playlists[2].plID = PyInt(1)
    /\ next_playlist_id = 4

-----------------------------------------------------------------------------
(* SpecChannel: one Channel object and the channel document on disk *)

\* Playlist objects a caller builds and hands to Channel.add_playlist
PlaylistObjects ==
    { add_video(add_video(Playlist(mu, PyInt(1)), v1), v2),
      Playlist(Mu, PyInt(2)),
      add_video(Playlist(ro, PyInt(1)), v2) }

channel_frame == UNCHANGED <<next_playlist_id, listbox_size, pl, plFile, savedVideos>>

\* Channel() with whatever file already lies on disk
InitChannel ==
    /\ name = Channel(DefaultChannelName).name
    /\ playlists = Channel(DefaultChannelName).playlists
    /\ next_playlist_id = 1
    /\ listbox_size = 0
    /\ chanFile \in ChannelFiles
    /\ savedChannel = <<>>
    /\ pl = Playlist(mu, PyInt(1))
    /\ plFile = [kind |-> "missing"]
    /\ savedVideos = <<>>
    /\ last = Last("init", "none", 0, 0, <<>>)

\* self.channel.name = name
channel_set_name ==
    \E n \in { <<"C">> } :
        /\ name' = n
        /\ last' = Last("set_name", "none", 0, 0, n)
        /\ UNCHANGED <<playlists, chanFile, savedChannel>>
        /\ channel_frame

\* Channel.add_playlist
channel_add_playlist ==
    \E p \in PlaylistObjects :
        /\ Len(playlists) < MaxPl
        /\ playlists' = add_playlist(self_channel, p).playlists
        /\ last' = Last("add_playlist", "none", 0, 0, <<>>)
        /\ UNCHANGED <<name, chanFile, savedChannel>>
        /\ channel_frame

\* Channel.to_json
channel_to_json ==
    /\ chanFile' = to_json(self_channel)
    /\ savedChannel' = <<self_channel>>
    /\ last' = Last("to_json", "none", 0, 0, <<>>)
    /\ UNCHANGED <<name, playlists>>
    /\ channel_frame

\* Channel.load_json
channel_load_json ==
    LET r == load_json(self_channel, chanFile)
    IN /\ name' = r.self.name
       /\ playlists' = r.self.playlists
       /\ last' = Last("load_json", r.err, 0, 0, <<>>)
       /\ UNCHANGED <<chanFile, savedChannel>>
       /\ channel_frame

NextChannel ==
    \/ channel_set_name
    \/ channel_add_playlist
    \/ channel_to_json
    \/ channel_load_json

SpecChannel == InitChannel /\ [][NextChannel]_vars

\* a playlist entry and a video record that hold every required field, the
\* numbers being numbers or numerals
WellFormedVideo(d) ==
    /\ {"title", "duration", "views"} \subseteq DOMAIN d
    /\ d.duration.type \in {"int", "str"} /\ int(d.duration).ok
    /\ d.views.type \in {"int", "str"} /\ int(d.views).ok

WellFormedEntry(d) ==
    /\ {"playListName", "plID"} \subseteq DOMAIN d
    /\ "videos" \in DOMAIN d =>
          \A i \in 1..Len(d.videos) : WellFormedVideo(d.videos[i])

WellFormedDocument(file) ==
    /\ file.kind = "object"
    /\ "playlists" \in DOMAIN file.obj =>
          \A i \in 1..Len(file.obj.playlists) :
              WellFormedEntry(file.obj.playlists[i])

\* C2: whenever Channel.load_json fails, the Channel's name and its playlists
\* are what they were before the call.
C2_LoadAllOrNothing ==
    [][(last'.op = "load_json" /\ last'.err # "none") =>
          (name' = name /\ playlists' = playlists)]_vars

\* C4: to_json followed by load_json of the same file, into the Channel as it
\* is by then, gives the saved name and the saved playlists (name, id, videos)
\* in the saved order.
C4_ChannelRoundTrip ==
    (last.op = "load_json" /\ savedChannel # <<>>) =>
        /\ last.err = "none"
        /\ name = savedChannel[1].name
        /\ playlists = savedChannel[1].playlists

\* C4 witness: a Channel renamed "C" with a two-video playlist and an empty one
\* was saved and loaded back
C4_Witness ==
    /\ last.op = "load_json"
    /\ savedChannel # <<>>
    /\ name = <<"C">>
    /\ Len(playlists) = 2
    /\ playlists[1].videos = <<v1, v2>>
    /\ playlists[2].videos = <<>>

\* C10: loading a well-formed document with no name key succeeds and keeps the
\* Channel's name; loading a well-formed document with no playlists key
\* succeeds and leaves the Channel without playlists.
C10_LenientLoad ==
    [][(last'.op = "load_json" /\ WellFormedDocument(chanFile)) =>
          /\ "name" \notin DOMAIN chanFile.obj =>
                (last'.err = "none" /\ name' = name)
          /\ "playlists" \notin DOMAIN chanFile.obj =>
                (last'.err = "none" /\ playlists' = <<>>)]_vars

\* C10 witness: a Channel renamed "C" loaded a document with neither key
C10_Witness ==
    /\ last.op = "load_json"
    /\ last.err = "none"
    /\ chanFile.kind = "object"
    /\ "name" \notin DOMAIN chanFile.obj
    /\ "playlists" \notin DOMAIN chanFile.obj
    /\ name = <<"C">>
    /\ playlists = <<>>

-----------------------------------------------------------------------------
(* SpecPlaylist: one Playlist object and the playlist text file on disk *)

Line(data) == [kind |-> "json", data |-> data]

PlaylistFiles ==
    { [kind |-> "missing"],
      TextFile(<<>>),
      TextFile(<<Line(asdict(v2)), [kind |-> "blank"], Line(asdict(v1))>>),
      TextFile(<<Line([title |-> "Outro", duration |-> PyStr(<<"4", "5">>),
                       views |-> PyInt(0)])>>),
      TextFile(<<Line(asdict(v1)), [kind |-> "garbage"]>>),
      TextFile(<<[kind |-> "garbage"]>>),
      TextFile(<<Line(asdict(v1)), Line([title |-> "Intro", views |-> PyInt(1)])>>),
      TextFile(<<Line([duration |-> PyInt(5), views |-> PyInt(1)])>>),
      TextFile(<<Line([title |-> "Intro", duration |-> PyStr(<<"x">>),
                       views |-> PyInt(1)])>>),
      TextFile(<<Line([title |-> "Intro", duration |-> PyInt(5),
                       views |-> PyNone])>>) }

\* the indexes handed to remove_video: negative, inside and beyond the list
Indexes == (0 - MaxVid - 1)..(MaxVid + 1)

playlist_frame ==
    UNCHANGED <<name, playlists, next_playlist_id, listbox_size, chanFile,
                savedChannel>>

\* Playlist(name, id) with whatever file already lies on disk
InitPlaylist ==
    /\ name = DefaultChannelName
    /\ playlists = <<>>
    /\ next_playlist_id = 1
    /\ listbox_size = 0
    /\ chanFile = [kind |-> "missing"]
    /\ savedChannel = <<>>
    /\ pl \in { Playlist(mu, PyInt(1)), Playlist(ro, PyInt(7)) }
    /\ plFile \in PlaylistFiles
    /\ savedVideos = <<>>
    /\ last = Last("init", "none", 0, 0, <<>>)

\* Playlist.add_video
playlist_add_video ==
    \E v \in Videos :
        /\ Len(pl.videos) < MaxVid
        /\ pl' = add_video(pl, v)
        /\ last' = Last("add_video", "none", 0, 0, <<>>)
        /\ UNCHANGED <<plFile, savedVideos>>
        /\ playlist_frame

\* Playlist.remove_video
playlist_remove_video ==
    \E index \in Indexes :
        LET r == remove_video(pl, index)
        IN /\ pl' = r.self
           /\ last' = Last("remove_video", r.err, index, 0, <<>>)
           /\ UNCHANGED <<plFile, savedVideos>>
           /\ playlist_frame

\* Playlist.save_playlist_to_file
playlist_save ==
    /\ plFile' = save_playlist_to_file(pl)
    /\ savedVideos' = <<pl.videos>>
    /\ last' = Last("save_playlist_to_file", "none", 0, 0, <<>>)
    /\ UNCHANGED pl
    /\ playlist_frame

\* Playlist.load_playlist_from_file
playlist_load ==
    LET r == load_playlist_from_file(pl, plFile)
    IN /\ pl' = r.self
       /\ last' = Last("load_playlist_from_file", r.err, 0, 0, <<>>)
       /\ UNCHANGED <<plFile, savedVideos>>
       /\ playlist_frame

NextPlaylist ==
    \/ playlist_add_video
    \/ playlist_remove_video
    \/ playlist_save
    \/ playlist_load

SpecPlaylist == InitPlaylist /\ [][NextPlaylist]_vars

\* C3: whenever Playlist.load_playlist_from_file fails, the playlist's videos
\* are what they were before the call.
C3_PlaylistLoadAllOrNothing ==
    [][(last'.op = "load_playlist_from_file" /\ last'.err # "none") =>
          pl'.videos = pl.videos]_vars

\* C5: save_playlist_to_file followed by load_playlist_from_file of the same
\* file, into the Playlist as it is by then, leaves exactly the saved videos in
\* the saved order, none of the earlier ones, and the name and id untouched.
C5_PlaylistRoundTrip ==
    [][(last'.op = "load_playlist_from_file" /\ savedVideos # <<>>) =>
          /\ last'.err = "none"
          /\ pl'.videos = savedVideos[1]
          /\ pl'.playListName = pl.playListName
          /\ pl'.plID = pl.plID]_vars

\* C5 witness: the videos v1, v2 were saved and are what the Playlist holds
\* after the load
C5_Witness ==
    /\ last.op = "load_playlist_from_file"
    /\ last.err = "none"
    /\ savedVideos = << <<v1, v2>> >>
    /\ pl.videos = <<v1, v2>>

\* C7: remove_video(index), for every integer index: outside [0, length) the
\* videos are unchanged and no error is raised; inside, exactly the video at
\* that position goes and the others keep their order.
C7_RemoveVideo ==
    [][last'.op = "remove_video" =>
          LET i == last'.idx
              n == Len(pl.videos)
          IN /\ last'.err = "none"
             /\ pl'.playListName = pl.playListName
             /\ pl'.plID = pl.plID
             /\ IF 0 <= i /\ i < n
                THEN pl'.videos = [k \in 1..(n - 1) |->
                                      IF k <= i THEN pl.videos[k]
                                      ELSE pl.videos[k + 1]]
                ELSE pl'.videos = pl.videos]_vars

\* C7 witness: remove_video(-1) on a Playlist that still holds two videos
C7_Witness ==
    /\ last.op = "remove_video"
    /\ last.idx = -1
    /\ last.err = "none"
    /\ Len(pl.videos) = 2

-----------------------------------------------------------------------------
(* SpecIntIds: the App when every channel document it is given holds integer *)
(* plIDs only (documents that fail to load included)                         *)

IntIdPlaylistLists ==
    { l \in PlaylistLists :
        \A i \in 1..Len(l) : "plID" \in DOMAIN l[i] => IsPyInt(l[i].plID) }

IntIdChannelFiles ==
    { f \in ChannelFiles :
        (f.kind = "object" /\ "playlists" \in DOMAIN f.obj) =>
            f.obj.playlists \in IntIdPlaylistLists }

\* App.load_channel on such a file
load_channel_int_ids == \E file \in IntIdChannelFiles : load_channel_from(file)

NextIntIds ==
    \/ rename_channel
    \/ load_channel_cancel
    \/ load_channel_int_ids
    \/ create_playlist
    \/ delete_playlist_none
    \/ delete_playlist
    \/ app_search_playlist

SpecIntIds == Init /\ [][NextIntIds]_vars

CounterAboveIds(pls, next) ==
    \A i \in 1..Len(pls) : IsPyInt(pls[i].plID) /\ pls[i].plID.val < next

\* C11: with integer playlist ids, in every state reached by create-playlist,
\* delete-playlist and load-channel (successful or failed) the counter is
\* strictly greater than the id of every current playlist; create-playlist gives
\* the new playlist the counter's value, an id no current playlist has; and the
\* counter never decreases without a load-channel, so the ids of consecutive
\* create-playlist commands strictly increase.
C11_CounterAboveIds ==
    [][/\ CounterAboveIds(playlists, next_playlist_id)
       /\ CounterAboveIds(playlists', next_playlist_id')
       /\ last'.op = "create_playlist" =>
             /\ Len(playlists') = Len(playlists) + 1
             /\ playlists'[Len(playlists')].plID = PyInt(next_playlist_id)
             /\ \A i \in 1..Len(playlists) :
                   playlists[i].plID # playlists'[Len(playlists')].plID
             /\ next_playlist_id' > next_playlist_id
       /\ last'.op # "load_channel" =>
             next_playlist_id' >= next_playlist_id]_vars

\* C11 witness: after a load of the ids 3 and 1 and a deletion, create-playlist
\* handed out the id 4 next to the playlist with id 3
C11_Witness ==
    /\ last.op = "create_playlist"
    /\ Len(playlists) = 2
    /\ playlists[1].plID = PyInt(3)
    /\ playlists[2].plID = PyInt(4)
    /\ next_playlist_id = 5

=============================================================================
